---- MODULE Spec2Model ----
(***************************************************************************)
(* A model of httpstat (src/httpstat.py): the polling loop of main(), its  *)
(* two per-domain sliding windows, and the top-level interrupt handler.    *)
(*                                                                         *)
(* Time is counted in whole units (one unit = one second of time.sleep).   *)
(* A request's elapsed time is a whole number of units in 1..MaxDur; the   *)
(* sample td_secs() derives from it is that number.                        *)
(*                                                                         *)
(* The ghost variables (allHead, allGet, rows, nHead, nGet, nSleep,        *)
(* successes, failures, lastFail, header, statsMade, sinceStart, reqTime,   *)
(* sleeps, intAt, call, sent, raised) record what the program did; the     *)
(* program never reads them.                                               *)
(***************************************************************************)
EXTENDS Integers, Sequences, FiniteSets, TLC

VARIABLES
    args,        \* positional arguments, strings (line 118)
    options,     \* [external, num_datapoints] (lines 111-118)
    delay,       \* line 135
    count,       \* line 136; None when unbounded
    stats,       \* stats[domain]: [head |-> window, get |-> window] (149-153)
    iterations,  \* line 155
    head_resp,   \* elapsed time of the HEAD response of this tick (line 166)
    get_resp,    \* elapsed time of the GET response of this tick (line 167)
    get_status,  \* get_resp.status_code (lines 167, 188)
    evict,       \* outcome of the test of line 178, used by lines 179-183
    pc,          \* position of the single thread of control
    exitStatus,  \* <<status>> once the process has exited, <<>> while it lives
    allHead,     \* ghost: every sample ever pushed into the head window
    allGet,      \* ghost: every sample ever pushed into the get window
    rows,        \* ghost: the data rows printed (line 195)
    header,      \* ghost: number of header rows printed (line 157)
    statsMade,   \* ghost: number of times the stats dict was built (lines 149-153)
    nHead,       \* ghost: HEAD requests issued
    nGet,        \* ghost: GET requests issued
    nSleep,      \* ghost: calls of time.sleep
    successes,   \* ghost: ticks on which both requests returned a response
    failures,    \* ghost: ticks that ended in the except clause
    lastFail,    \* ghost: the request that raised on the latest failed tick
    sinceStart,  \* ghost: time since the latest probe start (process start before the first)
    reqTime,     \* ghost: time spent in requests since the latest probe start
    sleeps,      \* ghost: calls of time.sleep since the latest probe start
    intAt,       \* ghost: the position at which the interrupt arrived
    call,        \* ghost: <<the arguments of the latest fetch_url call>>
    sent,        \* ghost: <<the request that call handed to requests>>, <<>> if none
    raised,      \* ghost: that call raised "unrecognized HTTP method"
    pending      \* ghost: the requests main() issued that have not returned yet

vars == <<args, options, delay, count, stats, iterations, head_resp, get_resp,
          get_status, evict, pc, exitStatus, allHead, allGet, rows, header, statsMade,
          nHead, nGet,
          nSleep, successes, failures, lastFail, sinceStart, reqTime, sleeps,
          intAt, call, sent, raised, pending>>

(***************************************************************************)
(* Bounds of the model.                                                    *)
(***************************************************************************)
\* largest count given on the command line
MaxCount == 3
\* ticks explored of a run with no count
MaxTicks == 3
\* largest window capacity explored
MaxCap == 2
\* largest elapsed time of one request (its timeout)
MaxDur == 2
\* largest delay given on the command line
MaxDelay == 2

\* count = None (line 136); counts on the command line are 0..MaxCount
None == -1

Max(a, b) == IF a >= b THEN a ELSE b
Min(a, b) == IF a <= b THEN a ELSE b

(***************************************************************************)
(* Command-line words are strings; float() and int() parse them.           *)
(***************************************************************************)
Digits == <<"0", "1", "2", "3", "4", "5", "6", "7", "8", "9">>
NumStr(n) == Digits[n + 1]
\* float(args[1]) (lines 142, 144)
ParseFloat(s) == CHOOSE n \in 0..9 : Digits[n + 1] = s
\* int(args[2]) (line 145)
ParseInt(s) == CHOOSE n \in 0..9 : Digits[n + 1] = s

\* elapsed times of a request: the shortest and the longest explored
Durations == {1, MaxDur}

\* status codes a response can carry; none of them raises
StatusCodes == {200, 503}

\* the GET responses explored: a 200 at every elapsed time, and a 503 at the
\* shortest one
GetResponses ==
    {[elapsed |-> d, status_code |-> 200] : d \in Durations}
        \cup {[elapsed |-> 1, status_code |-> 503]}

\* line 188: str(get_resp.status_code)
StatusStr(c) == IF c = 200 THEN "200" ELSE IF c = 503 THEN "503" ELSE "?"

(***************************************************************************)
(* options.num_datapoints: the int default of line 116 when -n is absent   *)
(* (isStr = FALSE), else the command-line word, a str, since the option    *)
(* declares no type. The default is explored at every capacity 1..MaxCap,  *)
(* so that eviction happens within the ticks explored. A str behaves the   *)
(* same whatever number it spells (see WindowFull), so one word stands for *)
(* the command-line values.                                                *)
(***************************************************************************)
NumDatapointsValues ==
    {[isStr |-> FALSE, int |-> c, str |-> ""] : c \in 1..MaxCap}
        \cup {[isStr |-> TRUE, int |-> 0, str |-> NumStr(1)]}

\* the delays given on the command line: the smallest and the largest
DelayValues == {1, MaxDelay}

ArgsValues ==
    {<<>>, <<"http://x">>}
        \cup {<<"http://x", NumStr(d)>> : d \in DelayValues}
        \cup {<<"http://x", NumStr(d), NumStr(c)>> : d \in DelayValues, c \in 0..MaxCount}

OptionsValues ==
    {[external |-> e, num_datapoints |-> n] : e \in BOOLEAN, n \in NumDatapointsValues}

Init ==
    /\ args \in ArgsValues
    /\ options \in OptionsValues
    /\ delay = 1
    /\ count = None
    /\ stats = [head |-> <<>>, get |-> <<>>]
    /\ iterations = 0
    /\ head_resp = 0
    /\ get_resp = 0
    /\ get_status = 0
    /\ evict = FALSE
    /\ pc = "start"
    /\ exitStatus = <<>>
    /\ allHead = <<>>
    /\ allGet = <<>>
    /\ rows = <<>>
    /\ header = 0
    /\ statsMade = 0
    /\ nHead = 0
    /\ nGet = 0
    /\ nSleep = 0
    /\ successes = 0
    /\ failures = 0
    /\ lastFail = "none"
    /\ sinceStart = 0
    /\ reqTime = 0
    /\ sleeps = 0
    /\ intAt = "none"
    /\ call = <<>>
    /\ sent = <<>>
    /\ raised = FALSE
    /\ pending = {}

ghostCounters == <<nHead, nGet, nSleep, successes, failures, lastFail>>
ghostTime == <<sinceStart, reqTime, sleeps>>
ghostOut == <<allHead, allGet, rows, header, statsMade>>
config == <<args, options, delay, count>>
resps == <<head_resp, get_resp, get_status, evict>>
fetchVars == <<call, sent, raised>>

(***************************************************************************)
(* The pieces of main() the actions are built from.                        *)
(***************************************************************************)
\* ArityCount without line 140: one argument leaves count unset
ArityCountNoSingle(a) ==
    IF Len(a) = 3 THEN ParseInt(a[3]) ELSE None

\* lines 136-145: count by the number of positional arguments
ArityCount(a) ==
    IF Len(a) = 1 THEN 1
    ELSE IF Len(a) = 3 THEN ParseInt(a[3])
    ELSE None

\* lines 135-145: delay by the number of positional arguments
ArityDelay(a) ==
    IF Len(a) = 2 \/ Len(a) = 3 THEN ParseFloat(a[2]) ELSE 1

\* LoopCond with <= for <
LoopCondInclusive(c, i) == c = None \/ i <= c

\* line 159: while count is None or iterations < count
LoopCond(c, i) == c = None \/ i < c

\* ShouldSleep that sleeps before the first tick too
ShouldSleepAlways(i) == i >= 0

\* ShouldSleep that skips the sleep before the second tick
ShouldSleepLate(i) == i >= 2

\* line 160: if iterations >= 1
ShouldSleep(i) == i >= 1

\* WindowFull with > for >=
WindowFullStrict(w, n) == IF n.isStr THEN FALSE ELSE Len(w) > n.int

\* line 178: len(stats[domain]['head']) >= options.num_datapoints.
\* Python 2 orders an int before a str whatever their values.
WindowFull(w, n) == IF n.isStr THEN FALSE ELSE Len(w) >= n.int

\* ShiftLeft that drops the oldest sample and forgets the new one
ShiftLeftOnly(w, x) == IF w = <<>> THEN <<>> ELSE Tail(w)

\* lines 179-180: w[1:] + [x]
ShiftLeft(w, x) == IF w = <<>> THEN <<x>> ELSE Tail(w) \o <<x>>

\* lines 182-183: w.append(x)
AppendSample(w, x) == Append(w, x)

\* lines 179-183, one window
Push(w, x, full) == IF full THEN ShiftLeft(w, x) ELSE AppendSample(w, x)

\* ExceptIterations without the increment
ExceptIterationsKept(i) == i

\* line 172: iterations += 1 in the except clause
ExceptIterations(i) == i + 1

\* line 204: iterations += 1 at the end of a successful tick
NextIterations(i) == i + 1

\* line 132: sys.exit(1)
UsageStatus == 1
\* line 201: sys.exit(1)
ExternalStatus == 1
\* line 211: sys.exit(0)
InterruptStatus == 0
\* main() returns and the interpreter exits
ReturnStatus == 0

(***************************************************************************)
(* The statistics of lines 188-193. A mean is kept as the exact fraction   *)
(* num / den; a standard deviation is kept by its square, the fraction     *)
(* sqnum / sqden, so that no value is rounded.                             *)
(***************************************************************************)
RECURSIVE SumSeq(_)
\* the sum of the elements of w
SumSeq(w) == IF w = <<>> THEN 0 ELSE w[1] + SumSeq(Tail(w))

RECURSIVE MinSeq(_)
\* line 189: min(page_array), a scan that keeps the smaller element
MinSeq(w) == IF Len(w) = 1 THEN w[1] ELSE Min(w[1], MinSeq(Tail(w)))

RECURSIVE MaxSeq(_)
\* line 189: max(page_array), a scan that keeps the larger element
MaxSeq(w) == IF Len(w) = 1 THEN w[1] ELSE Max(w[1], MaxSeq(Tail(w)))

\* line 190: numpy.mean(page_array) = sum / N
NumpyMean(w) == [num |-> SumSeq(w), den |-> Len(w)]

\* the squares of the deviations N * x - sum, that is N^2 * (x - mean)^2
SqDevs(w) ==
    [i \in 1..Len(w) |-> (Len(w) * w[i] - SumSeq(w)) * (Len(w) * w[i] - SumSeq(w))]

\* numpy.std with ddof = 1: the sample standard deviation, divisor N - 1
NumpyStdSample(w) ==
    [sqnum |-> SumSeq(SqDevs(w)), sqden |-> Len(w) * Len(w) * (Len(w) - 1)]

\* line 191: numpy.std(page_array) = sqrt(mean(abs(x - x.mean()) ** 2)),
\* the divisor being N (numpy's default ddof = 0)
NumpyStd(w) ==
    [sqnum |-> SumSeq(SqDevs(w)), sqden |-> Len(w) * Len(w) * Len(w)]

\* Row with the newest get sample in the net time column
RowConflated(tick, status_code, page_array, head_array) ==
    [tick |-> tick,
     status |-> StatusStr(status_code),
     last |-> page_array[Len(page_array)],
     min |-> MinSeq(page_array),
     max |-> MaxSeq(page_array),
     avg |-> NumpyMean(page_array),
     stddev |-> NumpyStd(page_array),
     net_time |-> page_array[Len(page_array)]]

\* lines 188-193: the fields of a data row
Row(tick, status_code, page_array, head_array) ==
    [tick |-> tick,
     status |-> StatusStr(status_code),
     last |-> page_array[Len(page_array)],
     min |-> MinSeq(page_array),
     max |-> MaxSeq(page_array),
     avg |-> NumpyMean(page_array),
     stddev |-> NumpyStd(page_array),
     net_time |-> head_array[Len(head_array)]]

(***************************************************************************)
(* fetch_url (lines 52-76). A method is the sequence of its characters, so *)
(* that the substring tests of lines 69 and 71 are computed as written.    *)
(***************************************************************************)
HEAD == <<"H", "E", "A", "D">>
GET == <<"G", "E", "T">>

\* line 52: timeout=5
DefaultTimeout == 5

\* Python's  sub in s  for strings: s has a slice equal to sub
Contains(sub, s) ==
    \E i \in 1..(Len(s) - Len(sub) + 1) : SubSeq(s, i, i + Len(sub) - 1) = sub

\* line 59: headers = {'User-Agent': 'httpstat monitor', }
UserAgentHeaders == {<<"User-Agent", "httpstat monitor">>}

\* lines 70, 72: requests.head(url, timeout=timeout), requests.get(url,
\* timeout=timeout): the headers argument is not given, so the request
\* carries none of the caller's headers
RequestsCall(fn, url, timeout) ==
    [fn |-> fn, url |-> url, timeout |-> timeout, headers |-> {}]

\* lines 52-76: the request fetch_url issues, or the exception of line 74
FetchUrl(url, timeout, method, keepalive) ==
    IF Contains(HEAD, method)
    THEN [raised |-> FALSE, req |-> <<RequestsCall("head", url, timeout)>>]
    ELSE IF Contains(GET, method)
    THEN [raised |-> FALSE, req |-> <<RequestsCall("get", url, timeout)>>]
    ELSE [raised |-> TRUE, req |-> <<>>]

\* the arguments of a fetch_url call
Call(url, timeout, method, keepalive) ==
    [url |-> url, timeout |-> timeout, method |-> method, keepalive |-> keepalive]

(***************************************************************************)
(* Actions: one per step of main() between two points at which it can      *)
(* block or be interrupted.                                                 *)
(***************************************************************************)
\* Start that prints the header row before the argument check
StartHeaderFirst ==
    /\ pc = "start"
    /\ header' = header + 1
    /\ IF Len(args) < 1
       THEN /\ pc' = "exit"
            /\ exitStatus' = <<UsageStatus>>
            /\ UNCHANGED <<delay, count, stats, statsMade>>
       ELSE /\ delay' = ArityDelay(args)
            /\ count' = ArityCount(args)
            /\ stats' = [head |-> <<>>, get |-> <<>>]
            /\ statsMade' = statsMade + 1
            /\ pc' = "loop"
            /\ UNCHANGED exitStatus
    /\ iterations' = 0
    /\ UNCHANGED <<args, options, resps, allHead, allGet, rows, ghostCounters,
                   ghostTime, intAt>>
    /\ UNCHANGED <<fetchVars, pending>>

\* lines 129-157: argument check, arity rules, empty windows, header row
Start ==
    /\ pc = "start"
    /\ IF Len(args) < 1
       THEN /\ pc' = "exit"
            /\ exitStatus' = <<UsageStatus>>
            /\ UNCHANGED <<delay, count, header, stats, statsMade, iterations>>
       ELSE /\ delay' = ArityDelay(args)
            /\ count' = ArityCount(args)
            /\ stats' = [head |-> <<>>, get |-> <<>>]
            /\ statsMade' = statsMade + 1
            /\ iterations' = 0
            /\ header' = header + 1
            /\ pc' = "loop"
            /\ UNCHANGED exitStatus
    /\ UNCHANGED <<args, options, resps, allHead, allGet, rows, ghostCounters,
                   ghostTime, intAt>>
    /\ UNCHANGED <<fetchVars, pending>>

\* lines 159-160: the loop test, then the test for the sleep
LoopTest ==
    /\ pc = "loop"
    /\ count = None => iterations < MaxTicks
    /\ IF LoopCond(count, iterations)
       THEN /\ pc' = IF ShouldSleep(iterations) THEN "sleep" ELSE "head"
            /\ UNCHANGED exitStatus
       ELSE /\ pc' = "done"
            /\ exitStatus' = <<ReturnStatus>>
    /\ UNCHANGED <<config, stats, iterations, resps, ghostOut, ghostCounters,
                   ghostTime, intAt>>
    /\ UNCHANGED <<fetchVars, pending>>

\* line 161: time.sleep(delay)
Sleep ==
    /\ pc = "sleep"
    /\ sinceStart' = sinceStart + delay
    /\ sleeps' = sleeps + 1
    /\ nSleep' = nSleep + 1
    /\ pc' = "head"
    /\ UNCHANGED <<config, stats, iterations, resps, exitStatus, ghostOut,
                   nHead, nGet, successes, failures, lastFail, reqTime, intAt>>
    /\ UNCHANGED <<fetchVars, pending>>

\* line 166: the HEAD request is issued; the probe of this tick starts
HeadSend ==
    /\ pc = "head"
    /\ nHead' = nHead + 1
    /\ sinceStart' = 0
    /\ reqTime' = 0
    /\ sleeps' = 0
    /\ call' = <<Call(args[1], DefaultTimeout, HEAD, FALSE)>>
    /\ sent' = FetchUrl(args[1], DefaultTimeout, HEAD, FALSE).req
    /\ raised' = FetchUrl(args[1], DefaultTimeout, HEAD, FALSE).raised
    /\ pending' = pending \cup {HEAD}
    /\ pc' = "head_wait"
    /\ UNCHANGED <<config, stats, iterations, resps, exitStatus, ghostOut,
                   nGet, nSleep, successes, failures, lastFail, intAt>>

\* Except that records the HEAD sample of a tick whose GET raised
ExceptPartial(method, d) ==
    /\ iterations' = ExceptIterations(iterations)
    /\ failures' = failures + 1
    /\ lastFail' = method
    /\ sinceStart' = sinceStart + d
    /\ reqTime' = reqTime + d
    /\ pc' = "loop"
    /\ stats' = IF method = "GET"
                THEN [stats EXCEPT !.head = Append(stats.head, head_resp)]
                ELSE stats
    /\ UNCHANGED <<config, resps, exitStatus, ghostOut, nHead, nGet,
                   nSleep, successes, sleeps, intAt>>

\* Except that leaves the loop where the code continues it
ExceptBreak(method, d) ==
    /\ iterations' = ExceptIterations(iterations)
    /\ failures' = failures + 1
    /\ lastFail' = method
    /\ sinceStart' = sinceStart + d
    /\ reqTime' = reqTime + d
    /\ pc' = "done"
    /\ exitStatus' = <<ReturnStatus>>
    /\ UNCHANGED <<config, stats, resps, ghostOut, nHead, nGet,
                   nSleep, successes, sleeps, intAt>>

\* lines 170-173: except RequestException: log, iterations += 1, continue
Except(method, d) ==
    /\ iterations' = ExceptIterations(iterations)
    /\ failures' = failures + 1
    /\ lastFail' = method
    /\ sinceStart' = sinceStart + d
    /\ reqTime' = reqTime + d
    /\ pc' = "loop"
    /\ UNCHANGED <<config, stats, resps, exitStatus, ghostOut, nHead, nGet,
                   nSleep, successes, sleeps, intAt>>

\* line 166: the HEAD request returns a response, or raises
HeadReturn ==
    /\ pc = "head_wait"
    /\ \E d \in Durations :
         \/ /\ head_resp' = d
            /\ sinceStart' = sinceStart + d
            /\ reqTime' = reqTime + d
            /\ pc' = "get"
            /\ UNCHANGED <<config, stats, iterations, get_resp, get_status,
                           evict, exitStatus, ghostOut, ghostCounters, sleeps,
                           intAt>>
         \/ Except("HEAD", d)
    /\ pending' = pending \ {HEAD}
    /\ UNCHANGED fetchVars

\* GetSend that does not wait for the HEAD request to return
GetSendEarly ==
    /\ pc = "head_wait"
    /\ nGet' = nGet + 1
    /\ call' = <<Call(args[1], DefaultTimeout, GET, FALSE)>>
    /\ sent' = FetchUrl(args[1], DefaultTimeout, GET, FALSE).req
    /\ raised' = FetchUrl(args[1], DefaultTimeout, GET, FALSE).raised
    /\ pending' = pending \cup {GET}
    /\ pc' = "get_wait"
    /\ UNCHANGED <<config, stats, iterations, resps, exitStatus, ghostOut,
                   nHead, nSleep, successes, failures, lastFail, ghostTime,
                   intAt>>

\* line 167: the GET request is issued
GetSend ==
    /\ pc = "get"
    /\ nGet' = nGet + 1
    /\ call' = <<Call(args[1], DefaultTimeout, GET, FALSE)>>
    /\ sent' = FetchUrl(args[1], DefaultTimeout, GET, FALSE).req
    /\ raised' = FetchUrl(args[1], DefaultTimeout, GET, FALSE).raised
    /\ pending' = pending \cup {GET}
    /\ pc' = "get_wait"
    /\ UNCHANGED <<config, stats, iterations, resps, exitStatus, ghostOut,
                   nHead, nSleep, successes, failures, lastFail, ghostTime,
                   intAt>>

\* line 167: the GET request returns a response, or raises
GetReturn ==
    /\ pc = "get_wait"
    /\ \/ \E r \in GetResponses :
            /\ get_resp' = r.elapsed
            /\ get_status' = r.status_code
            /\ successes' = successes + 1
            /\ sinceStart' = sinceStart + r.elapsed
            /\ reqTime' = reqTime + r.elapsed
            /\ pc' = "update_head"
            /\ UNCHANGED <<config, stats, iterations, head_resp, evict,
                           exitStatus, ghostOut, nHead, nGet, nSleep, failures,
                           lastFail, sleeps, intAt>>
       \/ \E d \in Durations : Except("GET", d)
    /\ pending' = pending \ {GET}
    /\ UNCHANGED fetchVars

\* lines 178, 179 / 182: the capacity test and the push into the head window
UpdateHead ==
    /\ pc = "update_head"
    /\ evict' = WindowFull(stats.head, options.num_datapoints)
    /\ stats' = [stats EXCEPT !.head = Push(stats.head, head_resp, evict')]
    /\ allHead' = Append(allHead, head_resp)
    /\ pc' = "update_get"
    /\ UNCHANGED <<config, iterations, head_resp, get_resp, get_status,
                   exitStatus, allGet, rows, header, statsMade, ghostCounters,
                   ghostTime, intAt>>
    /\ UNCHANGED <<fetchVars, pending>>

\* UpdateGet that appends whatever line 178 chose
UpdateGetAppend ==
    /\ pc = "update_get"
    /\ stats' = [stats EXCEPT !.get = AppendSample(stats.get, get_resp)]
    /\ allGet' = Append(allGet, get_resp)
    /\ pc' = "report"
    /\ UNCHANGED <<config, iterations, resps, exitStatus, allHead, rows, header,
                   statsMade, ghostCounters, ghostTime, intAt>>
    /\ UNCHANGED <<fetchVars, pending>>

\* lines 180 / 183: the push into the get window, in the branch line 178 chose
UpdateGet ==
    /\ pc = "update_get"
    /\ stats' = [stats EXCEPT !.get = Push(stats.get, get_resp, evict)]
    /\ allGet' = Append(allGet, get_resp)
    /\ pc' = "report"
    /\ UNCHANGED <<config, iterations, resps, exitStatus, allHead, rows, header,
                   statsMade, ghostCounters, ghostTime, intAt>>
    /\ UNCHANGED <<fetchVars, pending>>

\* Report with the test of line 198 ahead of the row
ReportAfterExternal ==
    /\ pc = "report"
    /\ IF options.external
       THEN /\ pc' = "exit"
            /\ exitStatus' = <<ExternalStatus>>
            /\ UNCHANGED rows
       ELSE /\ rows' = Append(rows, Row(iterations, get_status, stats.get,
                                        stats.head))
            /\ pc' = "external"
            /\ UNCHANGED exitStatus
    /\ UNCHANGED <<config, stats, iterations, resps, allHead,
                   allGet, header, statsMade, ghostCounters, ghostTime, intAt>>
    /\ UNCHANGED <<fetchVars, pending>>

\* lines 186-195: the data row
Report ==
    /\ pc = "report"
    /\ rows' = Append(rows, Row(iterations, get_status, stats.get, stats.head))
    /\ pc' = "external"
    /\ UNCHANGED <<config, stats, iterations, resps, exitStatus, allHead,
                   allGet, header, statsMade, ghostCounters, ghostTime, intAt>>
    /\ UNCHANGED <<fetchVars, pending>>

\* lines 198-204: the external-mode exit, else iterations += 1
CheckExternal ==
    /\ pc = "external"
    /\ IF options.external
       THEN /\ pc' = "exit"
            /\ exitStatus' = <<ExternalStatus>>
            /\ UNCHANGED iterations
       ELSE /\ iterations' = NextIterations(iterations)
            /\ pc' = "loop"
            /\ UNCHANGED exitStatus
    /\ UNCHANGED <<config, stats, resps, ghostOut, ghostCounters, ghostTime,
                   intAt>>
    /\ UNCHANGED <<fetchVars, pending>>

\* the positions inside main(), where KeyboardInterrupt can be raised
InMain ==
    {"start", "loop", "sleep", "head", "head_wait", "get", "get_wait",
     "update_head", "update_get", "report", "external"}

\* Interrupt with no handler: the interpreter prints the traceback and exits 1
InterruptUncaught ==
    /\ pc \in InMain
    /\ pc' = "exit"
    /\ exitStatus' = <<1>>
    /\ intAt' = pc
    /\ UNCHANGED <<config, stats, iterations, resps, ghostOut, ghostCounters,
                   ghostTime>>
    /\ UNCHANGED <<fetchVars, pending>>

\* lines 207-211: KeyboardInterrupt raised in main(), caught at the top level
Interrupt ==
    /\ pc \in InMain
    /\ pc' = "exit"
    /\ exitStatus' = <<InterruptStatus>>
    /\ intAt' = pc
    /\ UNCHANGED <<config, stats, iterations, resps, ghostOut, ghostCounters,
                   ghostTime>>
    /\ UNCHANGED <<fetchVars, pending>>

Step ==
    \/ Start
    \/ LoopTest
    \/ Sleep
    \/ HeadSend
    \/ HeadReturn
    \/ GetSend
    \/ GetReturn
    \/ UpdateHead
    \/ UpdateGet
    \/ Report
    \/ CheckExternal

Next == Step \/ Interrupt

Spec == Init /\ [][Next]_vars

\* the run with no interrupt, in which every sleep and every request returns
LiveSpec == Init /\ [][Step]_vars /\ WF_vars(Step)

TypeOK ==
    /\ args \in ArgsValues
    /\ options \in OptionsValues
    /\ pc \in InMain \cup {"done", "exit"}
    /\ exitStatus \in {<<>>, <<0>>, <<1>>}
    /\ iterations \in Nat
    /\ count \in {None} \cup 0..MaxCount
    /\ pending \subseteq {HEAD, GET}

(***************************************************************************)
(* Helpers of the properties.                                              *)
(***************************************************************************)
\* the last n elements of s
LastN(s, n) == SubSeq(s, Len(s) - n + 1, Len(s))

\* the capacity when num_datapoints is the int default
Capacity == options.num_datapoints.int

\* the window w holds the last min(n, C) samples of its history all
HoldsLast(w, all) ==
    /\ Len(w) <= Capacity
    /\ w = LastN(all, Min(Len(all), Capacity))

\* the arguments were parsed and the header row printed (lines 134-157)
Entered == Len(args) >= 1 /\ header = 1

(***************************************************************************)
(* C1: with an integer capacity C, each window holds at most C samples and *)
(* exactly the last min(n, C) of the n samples pushed into it, oldest      *)
(* first; a push onto a window of exactly C samples drops its first sample *)
(* only and puts the new sample at the tail.                               *)
(***************************************************************************)
C1_SlidingWindow ==
    /\ [](~options.num_datapoints.isStr =>
            /\ HoldsLast(stats.head, allHead)
            /\ HoldsLast(stats.get, allGet))
    /\ [][(~options.num_datapoints.isStr /\ Len(stats.get) = Capacity
             /\ allGet' # allGet)
            => /\ stats'.get = Tail(stats.get) \o <<get_resp>>
               /\ Len(stats'.get) = Capacity]_vars

\* a full window of capacity 2 took a third sample and dropped the first
C1_Witness ==
    /\ ~options.num_datapoints.isStr
    /\ Capacity = 2
    /\ allGet = <<1, 2, 1>>
    /\ stats.get = <<2, 1>>
    /\ allHead = <<2, 2, 1>>
    /\ stats.head = <<2, 1>>

(***************************************************************************)
(* C2: with -n N on the command line, neither window ever holds more than  *)
(* N samples.                                                              *)
(***************************************************************************)
C2_OptionBoundsWindows ==
    options.num_datapoints.isStr =>
        /\ Len(stats.head) <= ParseInt(options.num_datapoints.str)
        /\ Len(stats.get) <= ParseInt(options.num_datapoints.str)

(***************************************************************************)
(* C3: the number of positional arguments fixes the tick budget. One       *)
(* argument: at most one tick, exactly one when the loop ends, and no      *)
(* sleep. Two arguments: the loop never ends by itself and sleeps for the  *)
(* delay given. Three arguments: at most count ticks, exactly count when   *)
(* the loop ends, sleeping for the delay given.                            *)
(***************************************************************************)
C3_ArityBudget ==
    Entered =>
        /\ Len(args) = 1 =>
             /\ nHead <= 1
             /\ nSleep = 0
             /\ pc = "done" => nHead = 1 /\ iterations = 1
        /\ Len(args) = 2 =>
             /\ pc # "done"
             /\ delay = ParseFloat(args[2])
             /\ (pc = "head" /\ sleeps = 1) =>
                    sinceStart - reqTime = ParseFloat(args[2])
        /\ Len(args) = 3 =>
             /\ nHead <= ParseInt(args[3])
             /\ pc = "done" =>
                    nHead = ParseInt(args[3]) /\ iterations = ParseInt(args[3])
             /\ (pc = "head" /\ sleeps = 1) =>
                    sinceStart - reqTime = ParseFloat(args[2])

\* three arguments, delay 2, count 3: three ticks and two sleeps, then the end
C3_Witness ==
    /\ Len(args) = 3
    /\ args[2] = "2"
    /\ args[3] = "3"
    /\ pc = "done"
    /\ nHead = 3
    /\ nSleep = 2

(***************************************************************************)
(* C4: a tick on which the HEAD or the GET request raises leaves both      *)
(* windows as they were, prints no row, and adds exactly one to the tick   *)
(* counter before the loop test.                                           *)
(***************************************************************************)
C4_NoPartialSuccess ==
    [][(pc \in {"head_wait", "get_wait"} /\ failures' # failures)
         => /\ stats' = stats
            /\ allHead' = allHead
            /\ allGet' = allGet
            /\ rows' = rows
            /\ iterations' = iterations + 1
            /\ pc' = "loop"]_vars

\* after one good tick, a tick whose HEAD returned and whose GET raised
C4_Witness ==
    /\ pc = "loop"
    /\ lastFail = "GET"
    /\ successes = 1
    /\ failures = 1
    /\ iterations = 2
    /\ nHead = 2
    /\ nGet = 2
    /\ Len(allHead) = 1
    /\ Len(rows) = 1

(***************************************************************************)
(* C5: when a bounded run with external mode off ends, exactly count ticks *)
(* were attempted, and the samples pushed into the get window, the rows    *)
(* printed and the successful ticks are equal in number.                   *)
(***************************************************************************)
C5_BoundedRunCounts ==
    (pc = "done" /\ count # None /\ ~options.external) =>
        /\ nHead = count
        /\ iterations = count
        /\ successes + failures = count
        /\ Len(allGet) = successes
        /\ Len(rows) = successes

\* failure on tick 2 of 3: two samples, two rows, tick counter 3
C5_Witness ==
    /\ pc = "done"
    /\ count = 3
    /\ ~options.external
    /\ iterations = 3
    /\ failures = 1
    /\ Len(rows) = 2
    /\ rows[1].tick = 0
    /\ rows[2].tick = 2
    /\ Len(stats.get) = 2
    /\ Len(allGet) = 2

(***************************************************************************)
(* C6: the first probe is issued with no sleep before it; every later      *)
(* probe is issued after exactly one sleep of delay since the tick before  *)
(* it ended, whether that tick succeeded or failed.                        *)
(***************************************************************************)
C6_SleepBeforeLaterTicks ==
    pc = "head" =>
        /\ iterations = 0 => sleeps = 0 /\ nSleep = 0 /\ sinceStart = 0
        /\ iterations >= 1 =>
             /\ sleeps = 1
             /\ nSleep = iterations
             /\ sinceStart - reqTime = delay

\* the third probe is due: one tick failed, one succeeded, two sleeps so far
C6_Witness ==
    /\ pc = "head"
    /\ iterations = 2
    /\ failures = 1
    /\ successes = 1
    /\ sleeps = 1
    /\ nSleep = 2
    /\ delay = 2

(***************************************************************************)
(* C7 as stated: the probe of a later tick starts delay seconds after the  *)
(* start of the probe of the tick before it.                               *)
(***************************************************************************)
C7_DelayBetweenStarts ==
    (pc = "head" /\ nHead >= 1) => sinceStart = delay

(***************************************************************************)
(* C7 as amended: the probe of a later tick starts delay seconds after the *)
(* requests of the tick before it returned or raised, that is, delay plus  *)
(* the time those requests took after the start of the earlier probe.      *)
(***************************************************************************)
C7_DelayAfterRequests ==
    (pc = "head" /\ nHead >= 1) =>
        /\ reqTime >= 1
        /\ sinceStart = reqTime + delay

\* requests of 2 + 2 units and a delay of 1: the next probe starts 5 units on
C7_Witness ==
    /\ pc = "head"
    /\ nHead >= 1
    /\ delay = 1
    /\ reqTime = 4
    /\ sinceStart = 5

(***************************************************************************)
(* C8: whenever external mode is requested with a URL, a process that      *)
(* exits without being interrupted exits with status 1.                    *)
(***************************************************************************)
C8_ExternalExitsOne ==
    (options.external /\ Len(args) >= 1 /\ exitStatus # <<>> /\ intAt = "none")
        => exitStatus = <<1>>

(***************************************************************************)
(* C9: an interrupt can arrive at every position inside main(); it ends    *)
(* the process with exit status 0, and no request, window push or row      *)
(* follows it.                                                             *)
(***************************************************************************)
C9_InterruptExitsZero ==
    /\ [](pc \in InMain => ENABLED Interrupt)
    /\ [](intAt # "none" => pc = "exit" /\ exitStatus = <<0>>)
    /\ [][intAt # "none" =>
            /\ nHead' = nHead
            /\ nGet' = nGet
            /\ stats' = stats
            /\ rows' = rows
            /\ exitStatus' = exitStatus]_vars

\* interrupted while the GET request of the second tick was outstanding
C9_Witness ==
    /\ intAt = "get_wait"
    /\ pc = "exit"
    /\ exitStatus = <<0>>
    /\ nGet = 2
    /\ Len(rows) = 1

(***************************************************************************)
(* C10: with a count, external mode off, no interrupt, and every sleep and *)
(* request returning, the loop eventually ends after exactly count ticks   *)
(* and the process exits with status 0.                                    *)
(***************************************************************************)
C10_BoundedRunEnds ==
    (Len(args) \in {1, 3} /\ ~options.external) =>
        <>(/\ pc = "done"
           /\ exitStatus = <<0>>
           /\ iterations = ArityCount(args)
           /\ nHead = ArityCount(args))

\* a run of three ticks, all failed, ended with status 0
C10_Witness ==
    /\ pc = "done"
    /\ exitStatus = <<0>>
    /\ ~options.external
    /\ count = 3
    /\ failures = 3
    /\ successes = 0

\* a run with count 0 ended with status 0 and no probe
C10_WitnessZero ==
    /\ pc = "done"
    /\ exitStatus = <<0>>
    /\ ~options.external
    /\ Len(args) = 3
    /\ count = 0
    /\ nHead = 0

(***************************************************************************)
(* Helpers of the properties of the data rows.                             *)
(***************************************************************************)
\* the latest data row
LastRow == rows[Len(rows)]

\* the get samples retained when a row is printed, read off the history of
\* pushes: the last min(n, C) of them, all of them when nothing is evicted
RetainedGet ==
    IF options.num_datapoints.isStr THEN allGet
    ELSE LastN(allGet, Min(Len(allGet), Capacity))

\* the sum of the squares of the elements of w
SumSquares(w) == SumSeq([i \in 1..Len(w) |-> w[i] * w[i]])

(***************************************************************************)
(* C11: the row printed on a tick summarises exactly the get samples       *)
(* retained at that moment: last is the newest sample, min and max are     *)
(* their extrema, avg is their sum over their number N, and stddev is the  *)
(* population standard deviation, stddev^2 = sum(x^2) / N - avg^2; evicted *)
(* samples do not contribute.                                              *)
(***************************************************************************)
C11_SummaryOverWindow ==
    pc = "external" =>
        LET w == RetainedGet
            N == Len(w)
            r == LastRow
        IN  /\ N >= 1
            /\ r.last = allGet[Len(allGet)]
            /\ \E i \in 1..N : r.min = w[i]
            /\ \A i \in 1..N : r.min <= w[i]
            /\ \E i \in 1..N : r.max = w[i]
            /\ \A i \in 1..N : r.max >= w[i]
            /\ r.avg.den > 0
            /\ r.avg.num * N = SumSeq(w) * r.avg.den
            /\ r.stddev.sqden > 0
            /\ r.stddev.sqnum * N * N
                 = (N * SumSquares(w) - SumSeq(w) * SumSeq(w)) * r.stddev.sqden

\* capacity 2, samples 2, 1, 2: the row of the third tick summarises 1, 2
\* (avg 3/2, stddev^2 1/4); the evicted 2 would have made the avg 5/3
C11_Witness ==
    /\ pc = "external"
    /\ ~options.num_datapoints.isStr
    /\ Capacity = 2
    /\ allGet = <<2, 1, 2>>
    /\ LastRow.last = 2
    /\ LastRow.min = 1
    /\ LastRow.max = 2
    /\ LastRow.avg = [num |-> 3, den |-> 2]
    /\ LastRow.stddev = [sqnum |-> 2, sqden |-> 8]

(***************************************************************************)
(* C12: a row is printed only on a successful tick, after both samples of  *)
(* that tick were pushed; it carries the status code of that tick's GET    *)
(* response, last is that tick's GET elapsed time and net_time is that     *)
(* tick's HEAD elapsed time.                                               *)
(***************************************************************************)
C12_RowOfThisTick ==
    /\ Len(rows) <= successes
    /\ Len(rows) <= Len(allGet)
    /\ Len(rows) <= Len(allHead)
    /\ pc = "external" =>
         /\ Len(rows) = successes
         /\ Len(allHead) = successes
         /\ Len(allGet) = successes
         /\ LastRow.tick = iterations
         /\ LastRow.status = StatusStr(get_status)
         /\ LastRow.last = get_resp
         /\ LastRow.net_time = head_resp

\* second good tick: HEAD took 2 and GET took 1 with status 503, after a
\* tick whose HEAD took 1 and GET took 2 with status 200
C12_Witness ==
    /\ pc = "external"
    /\ allHead = <<1, 2>>
    /\ allGet = <<2, 1>>
    /\ head_resp = 2
    /\ get_resp = 1
    /\ get_status = 503
    /\ LastRow.status = "503"
    /\ LastRow.last = 1
    /\ LastRow.net_time = 2
    /\ rows[1].status = "200"

(***************************************************************************)
(* C13: with no URL argument the process exits with status 1 before the    *)
(* loop: no header row, no request, no window built or changed, no data    *)
(* row. With a URL the header row is printed exactly once, before the      *)
(* first request and before any data row.                                  *)
(***************************************************************************)
C13_UsageExitAndHeader ==
    /\ Len(args) = 0 =>
         /\ pc \in {"start", "exit"}
         /\ header = 0
         /\ statsMade = 0
         /\ stats = [head |-> <<>>, get |-> <<>>]
         /\ nHead = 0
         /\ nGet = 0
         /\ rows = <<>>
         /\ (pc = "exit" /\ intAt = "none") => exitStatus = <<1>>
    /\ Len(args) >= 1 =>
         /\ header <= 1
         /\ (pc # "start" /\ intAt # "start") => header = 1
         /\ (nHead >= 1 \/ rows # <<>>) => header = 1

\* no argument: the process has exited with status 1 and printed nothing
C13_Witness ==
    /\ Len(args) = 0
    /\ pc = "exit"
    /\ intAt = "none"
    /\ exitStatus = <<1>>
    /\ header = 0
    /\ statsMade = 0

(***************************************************************************)
(* C14: every request fetch_url hands to the requests library carries the  *)
(* header User-Agent: httpstat monitor.                                    *)
(***************************************************************************)
C14_UserAgentSent ==
    sent # <<>> => UserAgentHeaders \subseteq sent[1].headers

(***************************************************************************)
(* fetch_url as a function of its arguments: a call with any method, and   *)
(* what it does.                                                           *)
(***************************************************************************)
\* the methods a caller can pass: the two valid ones, and words that differ
\* from them
MethodValues ==
    {HEAD, GET,
     <<"P", "O", "S", "T">>,
     <<"H", "E", "A", "D", "E", "R">>,
     <<"F", "O", "R", "G", "E", "T">>,
     <<"h", "e", "a", "d">>,
     <<"G", "E">>,
     <<>>}

CallValues ==
    {Call(u, t, m, k) : u \in {"http://x", "https://y"}, t \in 1..DefaultTimeout,
                        m \in MethodValues, k \in BOOLEAN}

\* a process about to call fetch_url with any arguments
FetchInit ==
    /\ args = <<"http://x">>
    /\ options = [external |-> FALSE,
                  num_datapoints |-> [isStr |-> FALSE, int |-> 1, str |-> ""]]
    /\ delay = 1
    /\ count = None
    /\ stats = [head |-> <<>>, get |-> <<>>]
    /\ iterations = 0
    /\ head_resp = 0
    /\ get_resp = 0
    /\ get_status = 0
    /\ evict = FALSE
    /\ pc = "fetch"
    /\ exitStatus = <<>>
    /\ allHead = <<>>
    /\ allGet = <<>>
    /\ rows = <<>>
    /\ header = 0
    /\ statsMade = 0
    /\ nHead = 0
    /\ nGet = 0
    /\ nSleep = 0
    /\ successes = 0
    /\ failures = 0
    /\ lastFail = "none"
    /\ sinceStart = 0
    /\ reqTime = 0
    /\ sleeps = 0
    /\ intAt = "none"
    /\ call \in {<<c>> : c \in CallValues}
    /\ sent = <<>>
    /\ raised = FALSE
    /\ pending = {}

\* lines 52-76: the call runs up to the request it issues or the raise
FetchCall ==
    /\ pc = "fetch"
    /\ LET c == call[1]
           r == FetchUrl(c.url, c.timeout, c.method, c.keepalive)
       IN  /\ sent' = r.req
           /\ raised' = r.raised
           /\ pc' = IF r.raised THEN "fetch_raised" ELSE "fetch_sent"
    /\ UNCHANGED <<config, stats, iterations, resps, exitStatus, ghostOut,
                   ghostCounters, ghostTime, intAt, call, pending>>

FetchSpec == FetchInit /\ [][FetchCall]_vars

(***************************************************************************)
(* C15: for every method other than exactly HEAD or GET, fetch_url raises  *)
(* and issues no request.                                                  *)
(***************************************************************************)
C15_OnlyHeadAndGet ==
    (pc \in {"fetch_sent", "fetch_raised"} /\ call[1].method \notin {HEAD, GET})
        => (raised /\ sent = <<>>)

(***************************************************************************)
(* C16: whenever the summary of lines 186-193 is about to be computed,     *)
(* the get window and the head window each hold at least one sample.       *)
(***************************************************************************)
C16_SummaryOnNonEmpty ==
    pc = "report" =>
        /\ Len(stats.get) >= 1
        /\ Len(stats.head) >= 1
        /\ successes >= 1

\* the first summary of a run whose first tick failed, with a full window
\* of capacity 1 on the tick after
C16_Witness ==
    /\ pc = "report"
    /\ ~options.num_datapoints.isStr
    /\ Capacity = 1
    /\ failures = 1
    /\ successes = 2
    /\ Len(stats.get) = 1
    /\ Len(stats.head) = 1

(***************************************************************************)
(* C17: in a run with no count and no external mode, not interrupted, the   *)
(* loop never ends by itself, and after a tick that failed the next probe  *)
(* is attempted, one sleep later, however many ticks failed before it.     *)
(***************************************************************************)
\* the tick before this loop test raised: it printed no row
JustFailed ==
    /\ pc = "loop"
    /\ iterations >= 1
    /\ failures >= 1
    /\ (rows = <<>> \/ LastRow.tick # iterations - 1)

C17_FailuresDoNotStop ==
    /\ [](Len(args) = 2 => pc # "done")
    /\ \A n \in 1..(MaxTicks - 1) :
           (Len(args) = 2 /\ ~options.external /\ JustFailed /\ iterations = n)
               ~> (/\ pc = "head_wait"
                   /\ iterations = n
                   /\ nHead = n + 1
                   /\ nSleep = n)

\* two ticks failed in a row, and the third probe is on its way
C17_Witness ==
    /\ Len(args) = 2
    /\ ~options.external
    /\ pc = "head_wait"
    /\ failures = 2
    /\ successes = 0
    /\ iterations = 2
    /\ nHead = 3
    /\ nSleep = 2

(***************************************************************************)
(* C18: a tick runs its steps one after the other, in the order sleep       *)
(* (not on the first tick), HEAD request, GET request, push into the head   *)
(* window, push into the get window, row. The GET request is issued only    *)
(* once the HEAD request of the same tick has returned a response, no two   *)
(* requests are ever outstanding together, and no window changes and no row *)
(* is printed while a request of the tick is outstanding or has raised.     *)
(***************************************************************************)
\* the positions of a tick, in the order of lines 160-204
TickOrder ==
    <<"sleep", "head", "head_wait", "get", "get_wait", "update_head",
      "update_get", "report", "external">>

\* the place of position p in TickOrder, 0 if it is not a position of a tick
Rank(p) ==
    IF \E i \in 1..Len(TickOrder) : TickOrder[i] = p
    THEN CHOOSE i \in 1..Len(TickOrder) : TickOrder[i] = p
    ELSE 0

C18_StrictSequence ==
    /\ [](/\ Cardinality(pending) <= 1
          /\ nGet <= nHead
          /\ nHead <= successes + failures + 1)
    /\ [][/\ (Rank(pc) >= 1 /\ Rank(pc') >= 1) => Rank(pc') = Rank(pc) + 1
          /\ (pc = "loop" /\ Rank(pc') >= 1) =>
                 pc' = (IF iterations = 0 THEN "head" ELSE "sleep")
          /\ nSleep' # nSleep => (pc = "sleep" /\ pending = {})
          /\ nHead' # nHead =>
                 /\ pc = "head"
                 /\ pending = {}
                 /\ nHead = successes + failures
                 /\ nSleep = iterations
          /\ nGet' # nGet =>
                 /\ pc = "get"
                 /\ pending = {}
                 /\ nHead = successes + failures + 1
                 /\ head_resp \in Durations
          /\ pc' = "get" => (pc = "head_wait" /\ failures' = failures)
          /\ pc' = "update_head" => (pc = "get_wait" /\ failures' = failures)
          /\ (pc # "start" /\ stats'.head # stats.head) =>
                 /\ pc = "update_head"
                 /\ pending = {}
                 /\ successes = Len(allHead) + 1
                 /\ nHead = successes + failures
          /\ (pc # "start" /\ stats'.get # stats.get) =>
                 /\ pc = "update_get"
                 /\ pending = {}
                 /\ successes = Len(allGet) + 1
                 /\ Len(allHead) = successes
          /\ rows' # rows =>
                 /\ pc = "report"
                 /\ pending = {}
                 /\ Len(allHead) = successes
                 /\ Len(allGet) = successes
                 /\ Len(rows) + 1 = successes]_vars

\* the second tick of a run has run to its row: one sleep, then two requests
\* that returned, then the two pushes
C18_Witness ==
    /\ pc = "external"
    /\ iterations = 1
    /\ nSleep = 1
    /\ nHead = 2
    /\ nGet = 2
    /\ successes = 2
    /\ pending = {}
    /\ Len(allHead) = 2
    /\ Len(allGet) = 2
    /\ Len(rows) = 2

(***************************************************************************)
(* C19: at every loop test the head window and the get window have the     *)
(* same length, so the test of line 178 on the head window decides for the *)
(* get window what a test on the get window would decide; the windows      *)
(* change only on a tick whose two requests returned, and such a tick      *)
(* pushes exactly one sample into each.                                    *)
(***************************************************************************)
C19_WindowsInStep ==
    /\ [](/\ pc = "loop" =>
                /\ Len(stats.head) = Len(stats.get)
                /\ Len(allHead) = successes
                /\ Len(allGet) = successes
          /\ pc = "update_head" =>
                /\ Len(stats.head) = Len(stats.get)
                /\ WindowFull(stats.head, options.num_datapoints)
                       = WindowFull(stats.get, options.num_datapoints)
          /\ pc = "update_get" =>
                evict = WindowFull(stats.get, options.num_datapoints)
          /\ Len(allGet) <= Len(allHead)
          /\ Len(allHead) <= Len(allGet) + 1
          /\ Len(allHead) <= successes)
    /\ [][/\ failures' # failures => stats' = stats
          /\ stats' # stats => successes = Len(allGet) + 1
          /\ stats'.head # stats.head =>
                 /\ allHead' = Append(allHead, head_resp)
                 /\ stats'.head[Len(stats'.head)] = head_resp
                 /\ stats'.get = stats.get
          /\ stats'.get # stats.get =>
                 /\ allGet' = Append(allGet, get_resp)
                 /\ stats'.get[Len(stats'.get)] = get_resp
                 /\ stats'.head = stats.head
                 /\ Len(stats'.get) = Len(stats.head)]_vars

\* a loop test after two successful ticks and a failed one, the windows of
\* capacity 1 having evicted together
C19_Witness ==
    /\ pc = "loop"
    /\ ~options.num_datapoints.isStr
    /\ Capacity = 1
    /\ successes = 2
    /\ failures = 1
    /\ iterations = 3
    /\ Len(stats.head) = 1
    /\ Len(stats.get) = 1
    /\ Len(allHead) = 2

(***************************************************************************)
(* C20: with external mode requested, the exit of line 201 is taken at the *)
(* end of the first tick whose two requests returned, and nowhere else:    *)
(* that tick sent its HEAD and its GET request, pushed its two samples and *)
(* printed its row before the process exits with status 1. No run prints   *)
(* more than one row, and the ticks that failed before it were counted,    *)
(* slept after and retried like any failed tick.                           *)
(***************************************************************************)
\* the process took the exit of line 201
ExternalExit == Len(args) >= 1 /\ pc = "exit" /\ intAt = "none"

C20_ExternalAfterFirstSuccess ==
    /\ [](options.external =>
            /\ Len(rows) <= 1
            /\ successes <= 1
            /\ ExternalExit =>
                 /\ exitStatus = <<1>>
                 /\ successes = 1
                 /\ iterations = failures
                 /\ nHead = failures + 1
                 /\ nGet >= 1
                 /\ nSleep = failures
                 /\ pending = {}
                 /\ allHead = <<head_resp>>
                 /\ allGet = <<get_resp>>
                 /\ stats = [head |-> <<head_resp>>, get |-> <<get_resp>>]
                 /\ Len(rows) = 1
                 /\ rows[1].tick = failures
                 /\ rows[1].last = get_resp
                 /\ rows[1].net_time = head_resp)
    /\ [](ExternalExit => options.external)
    /\ [][/\ (Len(args) >= 1 /\ exitStatus' = <<1>> /\ exitStatus = <<>>) =>
                 /\ options.external
                 /\ pc = "external"
                 /\ Len(rows) = 1
          /\ (options.external /\ failures' # failures) =>
                 /\ iterations' = iterations + 1
                 /\ pc' = "loop"
                 /\ exitStatus' = exitStatus
                 /\ rows' = rows
                 /\ stats' = stats]_vars

\* two ticks failed, the third returned both responses, and the process
\* left with status 1 after its row
C20_Witness ==
    /\ options.external
    /\ pc = "exit"
    /\ intAt = "none"
    /\ exitStatus = <<1>>
    /\ failures = 2
    /\ successes = 1
    /\ nHead = 3
    /\ nSleep = 2
    /\ Len(rows) = 1
    /\ rows[1].tick = 2

====
